---- MODULE Spec2Model ----
(***************************************************************************)
(* Model of aiosupabase's realtime layer: the registry of realtime handles *)
(* kept by SupabaseClient (client.py), the SupabaseRealtimeClient handle   *)
(* (schemas/rt.py) with its listener registration and join calls, and the  *)
(* normalisation of change payloads done by the listener wrapper `cb`.     *)
(*                                                                         *)
(* The socket and its channels belong to the `realtime` library.  The      *)
(* model keeps of them what rt.py uses: set_channel appends a channel for  *)
(* a topic, each join()/_join() call sends one join request for the        *)
(* channel's topic, on() appends a listener, and an inbound frame is       *)
(* handed to the listeners of the channels of its topic.                   *)
(***************************************************************************)
EXTENDS Integers, Sequences, FiniteSets, TLC

VARIABLES
    client_schema,      \* settings.client_schema
    realtime_clients,   \* SupabaseClient._realtime_clients: key -> handle (0: absent)
    channels,           \* the socket's channels in creation order; handle h owns channels[h]
    sent,               \* topic -> number of join requests sent to the transport
    task,               \* the coroutine suspended at an await, if any
    state_calls,        \* invocations of subscribe's callback: <<handle, callback, tag>>
    ret,                \* the last realtime() call: its arguments, the schema it resolved,
                        \* whether it constructed a handle, whether the same arguments
                        \* had been passed before, and the handle it returned; also
                        \* the last unsubscribe or close call and what it raised
    returned,           \* <<schema, table_name>> -> handle returned by the first such call
    raw,                \* the last raw payload received from the transport
    delivered,          \* the user callbacks invoked for it, with their argument
    replies,            \* topic -> the join outcomes the transport has reported, by status
    feed,               \* the frames received so far and the callback invocations they led to
    http,               \* postgrest, storage and functions client: headers and session
    settings,           \* SupabaseSettings: url, key and the error of the last configuration
    threads,            \* threads inside realtime(): position and locals
    facade,             \* the global SupabaseAPI: its _api and the clients constructed
    out                 \* the result of the last constructor or invoke call

ext == <<replies, feed, http, settings, threads, facade, out>>

vars == <<client_schema, realtime_clients, channels, sent, task, state_calls,
          ret, returned, raw, delivered, replies, feed, http, settings, threads,
          facade, out>>

----
(* Bounds *)

MaxHandles   == 3    \* handles constructed on one client
MaxSent      == 3    \* join requests sent over the socket
MaxListeners == 2    \* listeners registered before frames are dispatched
MaxFrames    == 2    \* change frames received while calls are recorded
MaxClients   == 3    \* SupabaseClient objects constructed by the facade

(* Inputs *)

None         == "None"
Schemas      == {"public", "private"}
SchemaArgs   == {None} \cup Schemas
Tables       == {"*", "users"}
Callbacks    == {"f", "g"}
EventFilters == {"*", "INSERT", "UPDATE", "DELETE"}
JoinFilters  == {"UPDATE"}
JoinCallbacks == {"f"}
Types        == {"INSERT", "UPDATE", "DELETE", "TRUNCATE"}
Timestamps   == {"t1"}

\* a row is a dict column -> value, kept as its set of items
Cell(c, v)   == [col |-> c, t |-> "wire", v |-> v]
RowA         == {Cell("id", "1"), Cell("name", "a")}
RowB         == {Cell("id", "1"), Cell("name", "b")}
Rows         == {{}, RowA, RowB}
ColumnSets   == {{}, {[name |-> "id", type |-> "int8"], [name |-> "name", type |-> "text"]}}

\* user callbacks that raise when they are called, and the callbacks and
\* frames used where every call is recorded
Raising        == {"boom"}
EventCallbacks == {"g"} \cup Raising
FramePayloads ==
    [schema : {"public"}, table : {"users"}, commit_timestamp : Timestamps,
     type : {"INSERT", "UPDATE"}, record : {RowB}, old_record : {RowA},
     columns : {{}}]

\* column metadata that declares the text column an integer, and the frames
\* whose metadata is missing or wrong
BadColumns == {[name |-> "id", type |-> "int8"], [name |-> "name", type |-> "int8"]}
CoercePayloads ==
    [schema : {"public"}, table : {"users"}, commit_timestamp : Timestamps,
     type : {"INSERT", "UPDATE", "DELETE"}, record : {RowA, RowB},
     old_record : {RowA, RowB}, columns : {{}, BadColumns}]

Payloads ==
    [schema : {"public"}, table : {"users"}, commit_timestamp : Timestamps,
     type : Types, record : Rows, old_record : Rows, columns : ColumnSets]

----
(* schemas/rt.py *)

\* the topic without the wildcard case
topic_no_wildcard(schema, table_name) ==
    "realtime:" \o schema \o ":" \o table_name

\* __init__: the topic of the handle's channel
topic(schema, table_name) ==
    IF table_name = "*"
    THEN "realtime:" \o schema
    ELSE "realtime:" \o schema \o ":" \o table_name

AllTopics == { topic(s, t) : s \in Schemas, t \in Tables }

\* socket.set_channel(topic): a new channel on the socket, no listeners
set_channel(chs, tp) == Append(chs, [topic |-> tp, listeners |-> <<>>])

\* channel.join() / await channel._join(): one join request for the channel's topic
join(snt, tp) == [snt EXCEPT ![tp] = @ + 1]

\* channel.on(event, fn): append a listener
channel_on(chs, h, event, fn) ==
    [chs EXCEPT ![h].listeners = Append(@, [event |-> event, fn |-> fn])]

\* what a listener holds as its callable
Wrapped(callback)   == [kind |-> "cb", callback |-> callback]       \* on.cb
CallResult(callback) == [kind |-> "result", callback |-> callback]  \* callback("SUBSCRIBED")
OnError(callback)   == [kind |-> "error", callback |-> callback]    \* lambda x: ...
OnTimeout(callback) == [kind |-> "timeout", callback |-> callback]  \* lambda: ...

\* a constructor that joins its channel at once
SupabaseRealtimeClient_joining(chs, snt, schema, table_name) ==
    [channels |-> set_channel(chs, topic(schema, table_name)),
     sent |-> join(snt, topic(schema, table_name))]

\* SupabaseRealtimeClient.__init__: the socket state after constructing a handle
SupabaseRealtimeClient(chs, snt, schema, table_name) ==
    [channels |-> set_channel(chs, topic(schema, table_name)), sent |-> snt]

\* the wire values that read as an integer
Numeric(v) == v \in {"1"}

\* the coercion of one cell: to an integer when the column is declared int8
\* and the value reads as one; the raw cell when the column has no metadata,
\* needs no conversion, or its value fails to convert
convert_column(columns, x) ==
    IF \E c \in columns : c.name = x.col /\ c.type = "int8" /\ Numeric(x.v)
    THEN [x EXCEPT !.t = "int"] ELSE x

\* realtime.transformers.convert_change_data: the coerced copy of a row
convert_change_data(columns, record) ==
    { convert_column(columns, x) : x \in record }

\* get_payload_records setting `old` for every change type
get_payload_records_old_always(payload) ==
    LET r0 == [new |-> {}, old |-> {}]
        r1 == IF payload.type \in {"INSERT", "UPDATE"}
              THEN [r0 EXCEPT !.new = payload.record]
              ELSE r0
        r2 == IF payload.type \in {"INSERT", "UPDATE", "DELETE"}
              THEN [r1 EXCEPT !.old = payload.record]
              ELSE r1
    IN  r2

\* get_payload_records: both results of convert_change_data are dropped
get_payload_records(payload) ==
    LET r0 == [new |-> {}, old |-> {}]
        r1 == IF payload.type \in {"INSERT", "UPDATE"}
              THEN LET converted == convert_change_data(payload.columns, payload.record)
                   IN  [r0 EXCEPT !.new = payload.record]
              ELSE r0
        r2 == IF payload.type \in {"UPDATE", "DELETE"}
              THEN LET converted == convert_change_data(payload.columns, payload.old_record)
                   IN  [r1 EXCEPT !.old = payload.record]
              ELSE r1
    IN  r2

\* {**a, **b}
Merge(a, b) ==
    [k \in DOMAIN a \cup DOMAIN b |-> IF k \in DOMAIN b THEN b[k] ELSE a[k]]

\* a wrapper that passes the records on without the envelope
cb_records_only(payload) == get_payload_records(payload)

\* on.cb / async_on.cb: the argument the user callback is called with
cb(payload) ==
    LET enriched_payload ==
            [schema |-> payload.schema,
             table |-> payload.table,
             commit_timestamp |-> payload.commit_timestamp,
             event_type |-> payload.type,
             new |-> {},
             old |-> {}]
    IN  Merge(enriched_payload, get_payload_records(payload))

----
(* State after SupabaseClient.__init__ *)

NoTask == [op |-> "idle", h |-> 0, event |-> "", callback |-> "", pc |-> 0]
NoCall ==
    [op |-> "none", schema |-> "", table_name |-> "", resolved |-> "",
     created |-> FALSE, repeat |-> FALSE, handle |-> 0, raised |-> "",
     token |-> ""]
NoPayload ==
    [schema |-> "", table |-> "", commit_timestamp |-> "", type |-> "",
     record |-> {}, old_record |-> {}, columns |-> {}]

NoReplies == [ok |-> 0, error |-> 0, timeout |-> 0]
NoFeed == [frames |-> 0, log |-> <<>>]

\* the clients SupabaseClient.__init__ builds around an aiohttpx session, each
\* with the Authorization entry of its default_headers (none), of its lazily
\* computed headers and of its session's headers, the Authorization its
\* last request carried, and the number of its sessions created and not closed
HttpClients == {"postgrest", "storage", "functions"}
NewHttpClient ==
    [default_auth |-> None, computed |-> FALSE, headers |-> None,
     session |-> FALSE, session_auth |-> None, last |-> "", open |-> 0]

\* SupabaseSettings() with nothing in the environment
DefaultSettings == [url |-> None, key |-> None]

\* Supabase = SupabaseAPI(): no client yet; clients counts the SupabaseClient
\* objects constructed, each known by its number
NoFacade == [api |-> 0, clients |-> 0]
NoOut ==
    [op |-> "none", cls |-> "", passed |-> "", settings |-> "", raised |-> "",
     client |-> 0, reset |-> FALSE, options |-> "", post |-> "", result |-> <<>>]

Threads == {"T1", "T2"}
NoThread == [pc |-> "idle", table_name |-> "", schema |-> "", made |-> 0, result |-> 0]

Init ==
    /\ client_schema = "public"
    /\ realtime_clients = [t \in Tables |-> 0]
    /\ channels = <<>>
    /\ sent = [tp \in AllTopics |-> 0]
    /\ task = NoTask
    /\ state_calls = <<>>
    /\ ret = NoCall
    /\ returned = [k \in SchemaArgs \X Tables |-> 0]
    /\ raw = NoPayload
    /\ delivered = <<>>
    /\ replies = [tp \in AllTopics |-> NoReplies]
    /\ feed = NoFeed
    /\ http = [c \in HttpClients |-> NewHttpClient]
    /\ settings = DefaultSettings
    /\ threads = [t \in Threads |-> NoThread]
    /\ facade = NoFacade
    /\ out = NoOut

Handles == 1..Len(channels)
TotalSent == LET RECURSIVE Sum(_)
                 Sum(S) == IF S = {} THEN 0
                           ELSE LET tp == CHOOSE e \in S : TRUE
                                IN  sent[tp] + Sum(S \ {tp})
             IN  Sum(AllTopics)

\* room for n more join requests
CanSend(n) == TotalSent + n <= MaxSent

----
(* utils/config.py *)

\* SupabaseSettings.configure(client_schema = ...)
configure(schema) ==
    /\ schema # None
    /\ client_schema' = schema
    /\ UNCHANGED <<realtime_clients, channels, sent, task, state_calls,
                   ret, returned, raw, delivered>>
    /\ UNCHANGED ext

----
(* client.py *)

\* realtime() as it would be without the registry lookup
realtime_always_new(table_name, schema) ==
    LET s == IF schema = None THEN client_schema ELSE schema
        made == SupabaseRealtimeClient(channels, sent, s, table_name)
        h == Len(channels) + 1
    IN  /\ Len(channels) < MaxHandles
        /\ realtime_clients' = [realtime_clients EXCEPT ![table_name] = h]
        /\ channels' = made.channels
        /\ sent' = made.sent
        /\ ret' = [op |-> "realtime", schema |-> schema, table_name |-> table_name,
                   resolved |-> s, created |-> TRUE,
                   repeat |-> (returned[<<schema, table_name>>] # 0), handle |-> h,
                   raised |-> "", token |-> ""]
        /\ returned' = IF returned[<<schema, table_name>>] = 0
                       THEN [returned EXCEPT ![<<schema, table_name>>] = h]
                       ELSE returned
        /\ UNCHANGED <<client_schema, task, state_calls, raw, delivered>>
        /\ UNCHANGED ext

\* SupabaseClient.realtime(table_name, schema)
realtime(table_name, schema) ==
    LET s == IF schema = None THEN client_schema ELSE schema
        made == SupabaseRealtimeClient(channels, sent, s, table_name)
        absent == realtime_clients[table_name] = 0
        h == IF absent THEN Len(channels) + 1 ELSE realtime_clients[table_name]
    IN  /\ absent => Len(channels) < MaxHandles
        /\ realtime_clients' =
               IF absent THEN [realtime_clients EXCEPT ![table_name] = h]
               ELSE realtime_clients
        /\ channels' = IF absent THEN made.channels ELSE channels
        /\ sent' = IF absent THEN made.sent ELSE sent
        /\ ret' = [op |-> "realtime", schema |-> schema, table_name |-> table_name,
                   resolved |-> s, created |-> absent,
                   repeat |-> (returned[<<schema, table_name>>] # 0), handle |-> h,
                   raised |-> "", token |-> ""]
        /\ returned' = IF returned[<<schema, table_name>>] = 0
                       THEN [returned EXCEPT ![<<schema, table_name>>] = h]
                       ELSE returned
        /\ UNCHANGED <<client_schema, task, state_calls, raw, delivered>>
        /\ UNCHANGED ext

----
(* schemas/rt.py: SupabaseRealtimeClient *)

Idle == task.op = "idle"

\* on(event, callback): join, then register the wrapper cb
on(h, event, callback) ==
    /\ Idle
    /\ sent' = join(sent, channels[h].topic)
    /\ channels' = channel_on(channels, h, event, Wrapped(callback))
    /\ UNCHANGED <<client_schema, realtime_clients, task, state_calls,
                   ret, returned, raw, delivered>>
    /\ UNCHANGED ext

\* async_on that suspends without a join request
async_on_no_join(h, event, callback) ==
    /\ Idle
    /\ task' = [op |-> "async_on", h |-> h, event |-> event,
                callback |-> callback, pc |-> 1]
    /\ UNCHANGED <<client_schema, realtime_clients, channels, sent, state_calls,
                   ret, returned, raw, delivered>>
    /\ UNCHANGED ext

\* async_on(event, callback), up to the await: the join request goes out
async_on(h, event, callback) ==
    /\ Idle
    /\ sent' = join(sent, channels[h].topic)
    /\ task' = [op |-> "async_on", h |-> h, event |-> event,
                callback |-> callback, pc |-> 1]
    /\ UNCHANGED <<client_schema, realtime_clients, channels, state_calls,
                   ret, returned, raw, delivered>>
    /\ UNCHANGED ext

\* async_on after the await: register the wrapper cb
async_on_resume ==
    /\ task.op = "async_on"
    /\ channels' = channel_on(channels, task.h, task.event, Wrapped(task.callback))
    /\ task' = NoTask
    /\ UNCHANGED <<client_schema, realtime_clients, sent, state_calls,
                   ret, returned, raw, delivered>>
    /\ UNCHANGED ext

\* subscribe(callback): three joins; callback("SUBSCRIBED") is evaluated as
\* the argument of the first on()
subscribe(h, callback) ==
    LET tp == channels[h].topic
        c1 == channel_on(channels, h, "ok", CallResult(callback))
        c2 == channel_on(c1, h, "error", OnError(callback))
        c3 == channel_on(c2, h, "timeout", OnTimeout(callback))
    IN  /\ Idle
        /\ sent' = join(join(join(sent, tp), tp), tp)
        /\ state_calls' = Append(state_calls, <<h, callback, "SUBSCRIBED">>)
        /\ channels' = c3
        /\ UNCHANGED <<client_schema, realtime_clients, task,
                       ret, returned, raw, delivered>>
        /\ UNCHANGED ext

\* async_subscribe(callback), up to the first await
async_subscribe(h, callback) ==
    /\ Idle
    /\ sent' = join(sent, channels[h].topic)
    /\ task' = [op |-> "async_subscribe", h |-> h, event |-> "ok",
                callback |-> callback, pc |-> 1]
    /\ UNCHANGED <<client_schema, realtime_clients, channels, state_calls,
                   ret, returned, raw, delivered>>
    /\ UNCHANGED ext

\* async_subscribe between its awaits: register one listener, then the next join
async_subscribe_resume ==
    /\ task.op = "async_subscribe"
    /\ task.pc = 1 =>
          /\ state_calls' = Append(state_calls, <<task.h, task.callback, "SUBSCRIBED">>)
          /\ channels' = channel_on(channels, task.h, "ok", CallResult(task.callback))
          /\ sent' = join(sent, channels[task.h].topic)
          /\ task' = [task EXCEPT !.pc = 2, !.event = "error"]
    /\ task.pc = 2 =>
          /\ channels' = channel_on(channels, task.h, "error", OnError(task.callback))
          /\ sent' = join(sent, channels[task.h].topic)
          /\ task' = [task EXCEPT !.pc = 3, !.event = "timeout"]
          /\ UNCHANGED state_calls
    /\ task.pc = 3 =>
          /\ channels' = channel_on(channels, task.h, "timeout", OnTimeout(task.callback))
          /\ task' = NoTask
          /\ UNCHANGED <<sent, state_calls>>
    /\ UNCHANGED <<client_schema, realtime_clients, ret, returned, raw, delivered>>
    /\ UNCHANGED ext

----
(* Inbound frames *)

Matches(listener, event) == listener.event \in {"*", event}

\* the calls one channel makes for a frame, in listener order
RECURSIVE Fanout(_, _, _)
Fanout(listeners, event, payload) ==
    IF listeners = <<>> THEN <<>>
    ELSE LET l == Head(listeners)
             rest == Fanout(Tail(listeners), event, payload)
         IN  IF Matches(l, event) /\ l.fn.kind = "cb"
             THEN <<[callback |-> l.fn.callback, arg |-> cb(payload)]>> \o rest
             ELSE rest

\* the socket receives a change frame for the topic of channel h
dispatch(h, payload) ==
    /\ raw' = payload
    /\ delivered' = Fanout(channels[h].listeners, payload.type, payload)
    /\ UNCHANGED <<client_schema, realtime_clients, channels, sent, task,
                   state_calls, ret, returned>>
    /\ UNCHANGED ext

\* cb ends with callback(enriched_payload), outside any try: what the user
\* callback raises leaves cb
cb_raises(callback) == callback \in Raising

\* the calls one channel makes for a frame from listener i on, in listener
\* order: the synchronous loop over the listeners is left by an exception
RECURSIVE Invoked(_, _, _, _)
Invoked(listeners, i, event, payload) ==
    IF i > Len(listeners) THEN <<>>
    ELSE LET l == listeners[i]
             call == [listener |-> i, callback |-> l.fn.callback,
                      arg |-> cb(payload), raised |-> cb_raises(l.fn.callback)]
         IN  IF Matches(l, event) /\ l.fn.kind = "cb"
             THEN IF call.raised THEN <<call>>
                  ELSE <<call>> \o Invoked(listeners, i + 1, event, payload)
             ELSE Invoked(listeners, i + 1, event, payload)

\* the user callback runs inside cb, during the call the socket makes, so
\* its calls follow those made for the frames before; deliver_deferred keeps
\* them back behind a later frame's
deliver_deferred(lg, calls) == calls \o lg

deliver(lg, calls) == lg \o calls

\* the socket receives the next change frame for the topic of channel h and
\* every call of a user callback is recorded with the frame's number
receive(h, payload) ==
    LET n == feed.frames + 1
        made == Invoked(channels[h].listeners, 1, payload.type, payload)
        calls == [k \in DOMAIN made |->
                     [frame |-> n, h |-> h, listener |-> made[k].listener,
                      callback |-> made[k].callback, arg |-> made[k].arg,
                      raised |-> made[k].raised]]
    IN  /\ feed.frames < MaxFrames
        /\ raw' = payload
        /\ feed' = [frames |-> n, log |-> deliver(feed.log, calls)]
        /\ UNCHANGED <<client_schema, realtime_clients, channels, sent, task,
                       state_calls, ret, returned, delivered>>
        /\ UNCHANGED <<replies, http, settings, threads, facade, out>>

----
(* Join outcomes *)

StateTags == {"SUBSCRIBED", "SUBSCRIPTION_ERROR", "RETRYING_AFTER_TIMEOUT"}
Statuses  == {"ok", "error", "timeout"}
Details   == {"denied"}

Answered(tp) == replies[tp].ok + replies[tp].error + replies[tp].timeout

\* what calling a listener registered by subscribe/async_subscribe does:
\* for "ok" the registered object is the value callback("SUBSCRIBED") returned,
\* so the state callback itself is not called
state_listener(fn, h, x) ==
    CASE fn.kind = "error"   -> << <<h, fn.callback, "SUBSCRIPTION_ERROR", x>> >>
      [] fn.kind = "timeout" -> << <<h, fn.callback, "RETRYING_AFTER_TIMEOUT">> >>
      [] OTHER               -> <<>>

\* the calls a channel makes for a join outcome, in listener order
RECURSIVE Outcome(_, _, _, _)
Outcome(listeners, status, h, x) ==
    IF listeners = <<>> THEN <<>>
    ELSE LET l == Head(listeners)
             rest == Outcome(Tail(listeners), status, h, x)
         IN  IF l.event = status /\ l.fn.kind # "cb"
             THEN state_listener(l.fn, h, x) \o rest
             ELSE rest

\* the transport reports the outcome of one join request of channel h
reply(h, status, x) ==
    LET tp == channels[h].topic
    IN  /\ Answered(tp) < sent[tp]
        /\ replies' = [replies EXCEPT ![tp][status] = @ + 1]
        /\ state_calls' = state_calls \o Outcome(channels[h].listeners, status, h, x)
        /\ UNCHANGED <<client_schema, realtime_clients, channels, sent, task,
                       ret, returned, raw, delivered>>
        /\ UNCHANGED <<feed, http, settings, threads, facade, out>>

\* handle.unsubscribe(): SupabaseRealtimeClient defines no such attribute
unsubscribe(h) ==
    /\ ret' = [NoCall EXCEPT !.op = "unsubscribe", !.handle = h,
                             !.raised = "AttributeError"]
    /\ UNCHANGED <<client_schema, realtime_clients, channels, sent, task,
                   state_calls, returned, raw, delivered>>
    /\ UNCHANGED ext

----
(* utils/config.py: url and key *)

\* the strings passed as url and key, with their characters
UrlArgs == {"https://x", "http://x", "ftp://x", "https://", "x"}
KeyArgs == {"a.b", "a-1.b=.c/+", "a.b\n", "ab", "a b.c"}

chars(str) ==
    CASE str = "https://x"  -> <<"h", "t", "t", "p", "s", ":", "/", "/", "x">>
      [] str = "http://x"   -> <<"h", "t", "t", "p", ":", "/", "/", "x">>
      [] str = "ftp://x"    -> <<"f", "t", "p", ":", "/", "/", "x">>
      [] str = "https://"   -> <<"h", "t", "t", "p", "s", ":", "/", "/">>
      [] str = "x"          -> <<"x">>
      [] str = "a.b"        -> <<"a", ".", "b">>
      [] str = "a-1.b=.c/+" -> <<"a", "-", "1", ".", "b", "=", ".", "c", "/", "+">>
      [] str = "a.b\n"      -> <<"a", ".", "b", "\n">>
      [] str = "ab"         -> <<"a", "b">>
      [] str = "a b.c"      -> <<"a", " ", "b", ".", "c">>

\* [A-Za-z0-9-_=] and [A-Za-z0-9-_.+/=] over the characters used
KeyChars  == {"a", "b", "c", "1", "-", "_", "="}
TailChars == KeyChars \cup {".", "+", "/"}

StartsWith(cs, pre) == Len(cs) >= Len(pre) /\ SubSeq(cs, 1, Len(pre)) = pre
AllIn(cs, i, j, S) == \A k \in i..j : cs[k] \in S

\* re.match(r"^(https?)://.+", value)
match_url(cs) ==
    \E scheme \in {<<"h", "t", "t", "p">>, <<"h", "t", "t", "p", "s">>} :
        /\ StartsWith(cs, scheme \o <<":", "/", "/">>)
        /\ Len(cs) > Len(scheme) + 3
        /\ cs[Len(scheme) + 4] # "\n"

\* re.match(r"^[A-Za-z0-9-_=]+\.[A-Za-z0-9-_=]+\.?[A-Za-z0-9-_.+/=]*$", value);
\* $ also matches before a newline that ends the string
match_key(cs) ==
    \E end \in {Len(cs)} \cup {n \in {Len(cs) - 1} : n >= 0 /\ cs[n + 1] = "\n"} :
        \E i \in 1..end, j \in 1..end :
            /\ i + 2 <= j
            /\ AllIn(cs, 1, i, KeyChars)
            /\ cs[i + 1] = "."
            /\ AllIn(cs, i + 2, j, KeyChars)
            /\ AllIn(cs, j + 1, end, TailChars)

\* the validators: None passes, anything else must match
validate_url(value) == value = None \/ match_url(chars(value))
validate_key(value) == value = None \/ match_key(chars(value))

\* SupabaseSettings(url = ..., key = ...): the validators run on both fields
\* and SupabaseException leaves no new settings
SupabaseSettings(url, key) ==
    LET valid == validate_url(url) /\ validate_key(key)
    IN  /\ settings' = IF valid THEN [url |-> url, key |-> key] ELSE settings
        /\ ret' = [NoCall EXCEPT !.op = "SupabaseSettings",
                                 !.raised = IF valid THEN "" ELSE "SupabaseException"]
        /\ UNCHANGED <<client_schema, realtime_clients, channels, sent, task,
                       state_calls, returned, raw, delivered>>
        /\ UNCHANGED <<replies, feed, http, threads, facade, out>>

\* SupabaseSettings.configure(url = ..., key = ...), also reached through
\* SupabaseAPI.configure: plain assignments of what is not None
configure_url_key(url, key) ==
    /\ settings' = [url |-> IF url # None THEN url ELSE settings.url,
                    key |-> IF key # None THEN key ELSE settings.key]
    /\ ret' = [NoCall EXCEPT !.op = "configure"]
    /\ UNCHANGED <<client_schema, realtime_clients, channels, sent, task,
                   state_calls, returned, raw, delivered>>
    /\ UNCHANGED <<replies, feed, http, threads, facade, out>>

----
(* Collaborator clients: schemas/pgrest.py, storage.py, funcs.py *)

Tokens == {"jwt"}
Bearer(x) == "Bearer " \o x

\* the lazyproperty headers: computed on first use from default_headers, with
\* Authorization overwritten from settings.key when a key is set
headers(c) ==
    IF http[c].computed THEN http[c].headers
    ELSE IF settings.key # None THEN Bearer(settings.key)
    ELSE http[c].default_auth

\* the property session: created on first use with headers = self.headers
session(c) == IF http[c].session THEN http[c].session_auth ELSE headers(c)

\* the sessions open once self.session has been read: create_session is
\* called only if self._session is None
create_session(c) == IF http[c].session THEN http[c].open ELSE http[c].open + 1

\* the Authorization a request of client c carries: the session's, and for
\* FunctionsClient.invoke the one of self.headers passed with the request
Authorization(c) ==
    IF c = "functions" /\ headers(c) # None THEN headers(c) ELSE session(c)

\* a request through client c: from_(...).execute(), a bucket call, invoke()
request(c) ==
    /\ http' = [http EXCEPT ![c] =
                   [default_auth |-> http[c].default_auth, computed |-> TRUE,
                    headers |-> headers(c), session |-> TRUE,
                    session_auth |-> session(c), last |-> Authorization(c),
                    open |-> create_session(c)]]
    /\ UNCHANGED <<client_schema, realtime_clients, channels, sent, task,
                   state_calls, ret, returned, raw, delivered>>
    /\ UNCHANGED <<replies, feed, settings, threads, facade, out>>

\* SupabasePostgrestClient.auth(token) / FunctionsClient.set_auth(token)
auth(cl, token) ==
    IF cl.session THEN [cl EXCEPT !.session_auth = Bearer(token)]
    ELSE [cl EXCEPT !.default_auth = Bearer(token)]

\* SupabaseClient.set_auth(token): postgrest, the auth client and functions
set_auth(token) ==
    /\ http' = [c \in HttpClients |->
                   IF c \in {"postgrest", "functions"} THEN auth(http[c], token)
                   ELSE http[c]]
    /\ ret' = [NoCall EXCEPT !.op = "set_auth", !.token = token]
    /\ UNCHANGED <<client_schema, realtime_clients, channels, sent, task,
                   state_calls, returned, raw, delivered>>
    /\ UNCHANGED <<replies, feed, settings, threads, facade, out>>

\* close() of a client that drops its session without closing it
client_close_forget(cl) == [cl EXCEPT !.session = FALSE, !.session_auth = None]

\* close() / aclose() of a collaborator client: the session, if there is
\* one, is closed and dropped
client_close(cl) ==
    IF cl.session
    THEN [cl EXCEPT !.session = FALSE, !.session_auth = None, !.open = @ - 1]
    ELSE cl

\* SupabaseClient.close() / aclose() / __exit__ / __aexit__: the sessions of
\* postgrest, auth, storage and functions are closed
close ==
    /\ http' = [c \in HttpClients |-> client_close(http[c])]
    /\ ret' = [NoCall EXCEPT !.op = "close"]
    /\ UNCHANGED <<client_schema, realtime_clients, channels, sent, task,
                   state_calls, returned, raw, delivered>>
    /\ UNCHANGED <<replies, feed, settings, threads, facade, out>>

----
(* client.py: realtime() called from several threads *)

\* thread t calls realtime(table_name, schema): the schema default and the
\* lookup `table_name not in self._realtime_clients`
realtime_enter(t, table_name, schema) ==
    LET s == IF schema = None THEN client_schema ELSE schema
    IN  /\ threads[t].pc \in {"idle", "done"}
        /\ threads' = [threads EXCEPT ![t] =
                          [pc |-> IF realtime_clients[table_name] = 0
                                  THEN "construct" ELSE "return",
                           table_name |-> table_name, schema |-> s,
                           made |-> 0, result |-> 0]]
        /\ UNCHANGED <<client_schema, realtime_clients, channels, sent, task,
                       state_calls, ret, returned, raw, delivered>>
        /\ UNCHANGED <<replies, feed, http, settings, facade, out>>

\* thread t evaluates SupabaseRealtimeClient(socket, schema, table_name)
realtime_construct(t) ==
    LET th == threads[t]
        made == SupabaseRealtimeClient(channels, sent, th.schema, th.table_name)
    IN  /\ th.pc = "construct"
        /\ Len(channels) < MaxHandles
        /\ channels' = made.channels
        /\ sent' = made.sent
        /\ threads' = [threads EXCEPT ![t].pc = "store", ![t].made = Len(channels) + 1]
        /\ UNCHANGED <<client_schema, realtime_clients, task, state_calls,
                       ret, returned, raw, delivered>>
        /\ UNCHANGED <<replies, feed, http, settings, facade, out>>

\* thread t assigns self._realtime_clients[table_name]
realtime_store(t) ==
    /\ threads[t].pc = "store"
    /\ realtime_clients' =
           [realtime_clients EXCEPT ![threads[t].table_name] = threads[t].made]
    /\ threads' = [threads EXCEPT ![t].pc = "return"]
    /\ UNCHANGED <<client_schema, channels, sent, task, state_calls,
                   ret, returned, raw, delivered>>
    /\ UNCHANGED <<replies, feed, http, settings, facade, out>>

\* thread t returns self._realtime_clients[table_name]
realtime_return(t) ==
    /\ threads[t].pc = "return"
    /\ threads' = [threads EXCEPT ![t].pc = "done",
                                  ![t].result = realtime_clients[threads[t].table_name]]
    /\ UNCHANGED <<client_schema, realtime_clients, channels, sent, task,
                   state_calls, ret, returned, raw, delivered>>
    /\ UNCHANGED <<replies, feed, http, settings, facade, out>>

----
(* Constructors and their settings argument *)

Classes ==
    {"SupabaseClient", "SupabasePostgrestClient", "SupabaseStorageClient",
     "FunctionsClient", "SupabaseAuthClient"}

\* what is passed as settings: nothing, the global object, another object
SettingsArgs == {None, "sb_settings", "custom"}

\* auth.py: settings if settings is not None else sb_settings
settings_or_global(passed) == IF passed # None THEN passed ELSE "sb_settings"

\* client.py, pgrest.py, storage.py, funcs.py:
\* settings if settings is None else sb_settings
settings_if_none(passed) == IF passed = None THEN passed ELSE "sb_settings"

\* self.settings after the first statement of cls.__init__
init_settings(cls, passed) ==
    IF cls = "SupabaseAuthClient" THEN settings_or_global(passed)
    ELSE settings_if_none(passed)

\* cls(settings = passed): the statements after the first read
\* self.settings.<attribute>, which raises AttributeError on None
construct(cls, passed) ==
    LET st == init_settings(cls, passed)
    IN  /\ out' = [NoOut EXCEPT !.op = "construct", !.cls = cls, !.passed = passed,
                                !.settings = st,
                                !.raised = IF st = None THEN "AttributeError" ELSE ""]
        /\ UNCHANGED <<client_schema, realtime_clients, channels, sent, task,
                       state_calls, ret, returned, raw, delivered>>
        /\ UNCHANGED <<replies, feed, http, settings, threads, facade>>

----
(* client.py: SupabaseAPI *)

\* SupabaseClient(settings = self.settings) as get_api calls it: the client
\* takes the global settings, and FunctionsClient.__init__ reads
\* settings.functions_url, whose re.search raises TypeError on a url of None
SupabaseClient_raises(url) ==
    IF init_settings("SupabaseClient", "sb_settings") = None THEN "AttributeError"
    ELSE IF url = None THEN "TypeError"
    ELSE ""

\* get_api that constructs a client on every call
get_api_always_new(fc, url) ==
    IF SupabaseClient_raises(url) # ""
    THEN [facade |-> fc, raised |-> SupabaseClient_raises(url)]
    ELSE [facade |-> [api |-> fc.clients + 1, clients |-> fc.clients + 1],
          raised |-> ""]

\* SupabaseAPI.get_api(): construct the client if there is none
get_api(fc, url) ==
    IF fc.api # 0 THEN [facade |-> fc, raised |-> ""]
    ELSE IF SupabaseClient_raises(url) # ""
    THEN [facade |-> fc, raised |-> SupabaseClient_raises(url)]
    ELSE [facade |-> [api |-> fc.clients + 1, clients |-> fc.clients + 1],
          raised |-> ""]

\* the end of SupabaseAPI.configure: if reset: self._api = None, then get_api
\* if there is no client
configure_api(fc, url, reset) ==
    LET f1 == IF reset THEN [fc EXCEPT !.api = 0] ELSE fc
    IN  IF f1.api = 0 THEN get_api(f1, url) ELSE [facade |-> f1, raised |-> ""]

\* Supabase.get_api()
Supabase_get_api ==
    LET r == get_api(facade, settings.url)
    IN  /\ facade.clients < MaxClients
        /\ facade' = r.facade
        /\ out' = [NoOut EXCEPT !.op = "get_api", !.client = r.facade.api,
                                !.raised = r.raised]
        /\ UNCHANGED <<client_schema, realtime_clients, channels, sent, task,
                       state_calls, ret, returned, raw, delivered>>
        /\ UNCHANGED <<replies, feed, http, settings, threads>>

\* Supabase.api and the accessors that go through it (auth, postgrest,
\* atable, ...): self.configure() if there is no client
Supabase_api ==
    LET r == IF facade.api = 0 THEN configure_api(facade, settings.url, FALSE)
             ELSE [facade |-> facade, raised |-> ""]
    IN  /\ facade.clients < MaxClients
        /\ facade' = r.facade
        /\ out' = [NoOut EXCEPT !.op = "api", !.client = r.facade.api,
                                !.raised = r.raised]
        /\ UNCHANGED <<client_schema, realtime_clients, channels, sent, task,
                       state_calls, ret, returned, raw, delivered>>
        /\ UNCHANGED <<replies, feed, http, settings, threads>>

\* Supabase.configure(url = ..., key = ..., reset = ...)
Supabase_configure(url, key, reset) ==
    LET st == [url |-> IF url # None THEN url ELSE settings.url,
               key |-> IF key # None THEN key ELSE settings.key]
        r == configure_api(facade, st.url, reset)
    IN  /\ facade.clients < MaxClients
        /\ settings' = st
        /\ facade' = r.facade
        /\ out' = [NoOut EXCEPT !.op = "configure", !.client = r.facade.api,
                                !.reset = reset, !.raised = r.raised]
        /\ UNCHANGED <<client_schema, realtime_clients, channels, sent, task,
                       state_calls, ret, returned, raw, delivered>>
        /\ UNCHANGED <<replies, feed, http, threads>>

----
(* schemas/funcs.py: invoke / async_invoke *)

\* invoke_options: not a dict at all, or a dict without or with responseType
InvokeOptions == {None, "{}", "json", "text"}

\* what session.post does: it raises, or it returns a response with or
\* without an x-relay-header and a body that is or is not JSON
RelayHeaders == {None, "true", "false"}
Bodies       == {"{\"a\": 1}", "oops"}
Posts        == {"raises"} \cup (RelayHeaders \X Bodies)

NoneValue     == [kind |-> "None", of |-> ""]
content(body) == [kind |-> "bytes", of |-> body]
text(body)    == [kind |-> "str", of |-> body]
parsed(body)  == [kind |-> "json", of |-> body]
Exc(name)     == [kind |-> "exception", of |-> name]

is_json(body) == body = "{\"a\": 1}"

\* invoke_options.get('responseType')
response_type(options) == IF options = "{}" THEN None ELSE options

\* the try body with response.json() called after the except clause
invoke_try_unguarded(options, post) ==
    IF options = None
    THEN [result |-> [data |-> NoneValue, error |-> Exc("AttributeError")], raised |-> ""]
    ELSE IF post = "raises"
    THEN [result |-> [data |-> NoneValue, error |-> Exc("ConnectError")], raised |-> ""]
    ELSE IF post[1] # None /\ post[1] = "true"
    THEN [result |-> [data |-> NoneValue, error |-> text(post[2])], raised |-> ""]
    ELSE IF response_type(options) = "json"
    THEN IF is_json(post[2])
         THEN [result |-> [data |-> parsed(post[2]), error |-> NoneValue], raised |-> ""]
         ELSE [result |-> <<>>, raised |-> "JSONDecodeError"]
    ELSE [result |-> [data |-> content(post[2]), error |-> NoneValue], raised |-> ""]

\* the try body of invoke / async_invoke and its `except Exception as e`
invoke_try(options, post) ==
    IF options = None
    THEN [result |-> [data |-> NoneValue, error |-> Exc("AttributeError")], raised |-> ""]
    ELSE IF post = "raises"
    THEN [result |-> [data |-> NoneValue, error |-> Exc("ConnectError")], raised |-> ""]
    ELSE IF post[1] # None /\ post[1] = "true"
    THEN [result |-> [data |-> NoneValue, error |-> text(post[2])], raised |-> ""]
    ELSE IF response_type(options) = "json"
    THEN IF is_json(post[2])
         THEN [result |-> [data |-> parsed(post[2]), error |-> NoneValue], raised |-> ""]
         ELSE [result |-> [data |-> NoneValue, error |-> Exc("JSONDecodeError")],
               raised |-> ""]
    ELSE [result |-> [data |-> content(post[2]), error |-> NoneValue], raised |-> ""]

\* FunctionsClient.invoke / async_invoke (op): self.headers is read first, the
\* session is created for the post
invoke(op, options, post) ==
    LET r == invoke_try(options, post)
        c == "functions"
    IN  /\ http' = [http EXCEPT ![c] =
                       IF options = None
                       THEN [http[c] EXCEPT !.computed = TRUE, !.headers = headers(c)]
                       ELSE [default_auth |-> http[c].default_auth, computed |-> TRUE,
                             headers |-> headers(c), session |-> TRUE,
                             session_auth |-> session(c),
                             last |-> Authorization(c),
                             open |-> create_session(c)]]
        /\ out' = [NoOut EXCEPT !.op = op, !.options = options, !.post = post,
                                !.result = r.result, !.raised = r.raised]
        /\ UNCHANGED <<client_schema, realtime_clients, channels, sent, task,
                       state_calls, ret, returned, raw, delivered>>
        /\ UNCHANGED <<replies, feed, settings, threads, facade>>

----
(* Specifications *)

\* registry, listener registration and joins
Next ==
    \/ \E s \in Schemas : configure(s)
    \/ \E t \in Tables, s \in SchemaArgs : realtime(t, s)
    \/ \E h \in Handles, e \in JoinFilters, c \in JoinCallbacks : CanSend(1) /\ on(h, e, c)
    \/ \E h \in Handles, e \in JoinFilters, c \in JoinCallbacks : CanSend(1) /\ async_on(h, e, c)
    \/ async_on_resume
    \/ \E h \in Handles, c \in JoinCallbacks : CanSend(3) /\ subscribe(h, c)
    \/ \E h \in Handles, c \in JoinCallbacks : CanSend(3) /\ async_subscribe(h, c)
    \/ async_subscribe_resume

Spec == Init /\ [][Next]_vars

\* one handle, its listeners and the frames normalised for them
NextNorm ==
    \/ realtime("users", None)
    \/ \E h \in Handles, e \in EventFilters, c \in Callbacks :
          Len(channels[h].listeners) < MaxListeners /\ CanSend(1) /\ on(h, e, c)
    \/ \E h \in Handles, p \in Payloads : dispatch(h, p)

SpecNorm == Init /\ [][NextNorm]_vars

\* one handle: registrations, joins and the outcomes the transport reports
NextJoin ==
    \/ realtime("users", None)
    \/ \E h \in Handles, e \in JoinFilters, c \in JoinCallbacks : CanSend(1) /\ on(h, e, c)
    \/ \E h \in Handles, c \in JoinCallbacks : CanSend(3) /\ subscribe(h, c)
    \/ \E h \in Handles, c \in JoinCallbacks : CanSend(3) /\ async_subscribe(h, c)
    \/ async_subscribe_resume
    \/ \E h \in Handles, st \in Statuses, x \in Details : reply(h, st, x)
    \/ \E h \in Handles : unsubscribe(h)

SpecJoin == Init /\ [][NextJoin]_vars

\* one handle, listeners registered in either mode, and the frames received
NextEvents ==
    \/ realtime("users", None)
    \/ \E h \in Handles, e \in JoinFilters \cup {"*"}, c \in EventCallbacks :
          Len(channels[h].listeners) < MaxListeners /\ CanSend(1) /\ on(h, e, c)
    \/ \E h \in Handles, e \in JoinFilters \cup {"*"}, c \in EventCallbacks :
          Len(channels[h].listeners) < MaxListeners /\ CanSend(1) /\ async_on(h, e, c)
    \/ async_on_resume
    \/ \E h \in Handles, p \in FramePayloads : receive(h, p)

SpecEvents == Init /\ [][NextEvents]_vars

\* the settings object: construction and configure
NextSettings ==
    \/ \E s \in Schemas : configure(s)
    \/ \E u \in {None} \cup UrlArgs, k \in {None} \cup KeyArgs : SupabaseSettings(u, k)
    \/ \E u \in {None} \cup UrlArgs, k \in {None} \cup KeyArgs : configure_url_key(u, k)

SpecSettings == Init /\ [][NextSettings]_vars

\* one client: its realtime registry, its collaborator clients and teardown
NextClient ==
    \/ realtime("users", None)
    \/ \E k \in {"a.b"} : configure_url_key(None, k)
    \/ \E c \in HttpClients : request(c)
    \/ \E tk \in Tokens : set_auth(tk)
    \/ close

SpecClient == Init /\ [][NextClient]_vars

\* two threads calling realtime() on one client
NextThreads ==
    \/ \E t \in Threads, tb \in Tables : realtime_enter(t, tb, None)
    \/ \E t \in Threads : realtime_construct(t)
    \/ \E t \in Threads : realtime_store(t)
    \/ \E t \in Threads : realtime_return(t)

SpecThreads == Init /\ [][NextThreads]_vars

\* the global facade and the constructors
NextFacade ==
    \/ \E cls \in Classes, passed \in SettingsArgs : construct(cls, passed)
    \/ \E u \in {None, "https://x", "ftp://x"} : SupabaseSettings(u, None)
    \/ Supabase_get_api
    \/ Supabase_api
    \/ \E u \in {None, "https://x", "http://x"}, k \in {None, "a.b"}, reset \in BOOLEAN :
          Supabase_configure(u, k, reset)

SpecFacade == Init /\ [][NextFacade]_vars

\* the functions client: its headers, its session and its invocations
NextInvoke ==
    \/ \E k \in {"a.b"} : configure_url_key(None, k)
    \/ \E tk \in Tokens : set_auth(tk)
    \/ \E op \in {"invoke", "async_invoke"}, o \in InvokeOptions, p \in Posts :
          invoke(op, o, p)
    \/ close

SpecInvoke == Init /\ [][NextInvoke]_vars

\* one handle, its listeners, and frames whose columns fail to coerce
NextCoerce ==
    \/ realtime("users", None)
    \/ \E h \in Handles, e \in EventFilters, c \in Callbacks :
          Len(channels[h].listeners) < MaxListeners /\ CanSend(1) /\ on(h, e, c)
    \/ \E h \in Handles, p \in CoercePayloads : dispatch(h, p)

SpecCoerce == Init /\ [][NextCoerce]_vars

\* two handles of one client given the same calls: the one for "users"
\* through on/subscribe, the one for "*" through async_on/async_subscribe,
\* each cooperative call being the next call the blocking handle has had
Blocking    == realtime_clients["users"]
Cooperative == realtime_clients["*"]
Listeners(h) == channels[h].listeners
Room(h, n) == sent[channels[h].topic] + n <= MaxSent
Behind == Len(Listeners(Cooperative)) < Len(Listeners(Blocking))
NextCall == Listeners(Blocking)[Len(Listeners(Cooperative)) + 1]

NextModes ==
    \/ \E t \in Tables : realtime(t, None)
    \/ /\ Blocking # 0 /\ Cooperative # 0 /\ ~Behind /\ Room(Blocking, 1)
       /\ \E e \in JoinFilters \cup {"*"}, c \in Callbacks : on(Blocking, e, c)
    \/ /\ Blocking # 0 /\ Cooperative # 0 /\ ~Behind /\ Room(Blocking, 3)
       /\ \E c \in Callbacks : subscribe(Blocking, c)
    \/ /\ Blocking # 0 /\ Cooperative # 0 /\ Idle /\ Behind
       /\ NextCall.fn.kind = "cb"
       /\ async_on(Cooperative, NextCall.event, NextCall.fn.callback)
    \/ async_on_resume
    \/ /\ Blocking # 0 /\ Cooperative # 0 /\ Idle /\ Behind
       /\ NextCall.fn.kind = "result"
       /\ async_subscribe(Cooperative, NextCall.fn.callback)
    \/ async_subscribe_resume

SpecModes == Init /\ [][NextModes]_vars

----
(* Properties *)

Key(call) == <<call.schema, call.table_name>>
TopicOf(h) == channels[h].topic
EnvelopeKeys == {"schema", "table", "commit_timestamp", "event_type", "new", "old"}

\* C1: a realtime() call whose (schema, table_name) was passed before returns
\* the handle the first such call returned, and constructs no handle and no
\* channel on the socket.
C1_SameInstance ==
    [][\A k \in SchemaArgs \X Tables :
          (returned[k] # 0 /\ ret' # ret /\ ret'.op = "realtime" /\ Key(ret') = k)
          => /\ ret'.handle = returned[k]
             /\ channels' = channels
             /\ realtime_clients' = realtime_clients]_vars

C1_Witness ==
    /\ ret.op = "realtime"
    /\ ret.repeat
    /\ ret.handle = returned[Key(ret)]
    /\ Len(channels) = 1

\* C2: no topic ever has more than one join request sent for it, whatever
\* on/async_on/subscribe/async_subscribe calls were made on its handle.
C2_SingleJoin == \A tp \in AllTopics : sent[tp] <= 1

\* C3: the handle realtime() returns is bound to the topic of exactly the
\* (schema, table) it was asked for, and requests for different pairs never
\* return the same handle.
C3_HandlePerPair ==
    /\ ret.op = "realtime" => TopicOf(ret.handle) = topic(ret.resolved, ret.table_name)
    /\ \A k1, k2 \in Schemas \X Tables :
          (k1 # k2 /\ returned[k1] # 0 /\ returned[k2] # 0)
          => returned[k1] # returned[k2]

\* C4: a handle constructed for (schema, table) has the topic
\* "realtime:{schema}" when table is "*" and "realtime:{schema}:{table}"
\* otherwise.
C4_TopicDerivation ==
    (ret.op = "realtime" /\ ret.created) =>
        /\ ret.table_name = "*" => TopicOf(ret.handle) = "realtime:" \o ret.resolved
        /\ ret.table_name # "*" =>
              TopicOf(ret.handle) = "realtime:" \o ret.resolved \o ":" \o ret.table_name
        /\ (ret.resolved = "public" /\ ret.table_name = "*")
              => TopicOf(ret.handle) = "realtime:public"
        /\ (ret.resolved = "public" /\ ret.table_name = "users")
              => TopicOf(ret.handle) = "realtime:public:users"

C4_Witness ==
    /\ ret.op = "realtime" /\ ret.created
    /\ ret.table_name = "*" /\ ret.schema = "private"
    /\ \E h \in Handles : TopicOf(h) = "realtime:public:users"

\* C5: for an UPDATE payload every callback gets new = the current-row record
\* and old = the previous-row record.
C5_UpdateOldIsPrevious ==
    raw.type = "UPDATE" =>
        \A i \in DOMAIN delivered :
            /\ delivered[i].arg.new = raw.record
            /\ delivered[i].arg.old = raw.old_record

\* C6: for a DELETE payload every callback gets new = {} and old = the
\* previous-row record.
C6_DeleteOldIsPrevious ==
    raw.type = "DELETE" =>
        \A i \in DOMAIN delivered :
            /\ delivered[i].arg.new = {}
            /\ delivered[i].arg.old = raw.old_record

\* C7: for an INSERT payload every callback gets event_type = INSERT,
\* new = the payload's record and old = {}.
C7_InsertNewOnly ==
    raw.type = "INSERT" =>
        \A i \in DOMAIN delivered :
            /\ delivered[i].arg.event_type = "INSERT"
            /\ delivered[i].arg.new = raw.record
            /\ delivered[i].arg.old = {}

C7_Witness ==
    /\ raw.type = "INSERT"
    /\ raw.record = RowA
    /\ raw.old_record = RowB
    /\ delivered # <<>>

\* C8: the event a callback gets has exactly the envelope keys, and its
\* schema, table, commit_timestamp and event_type are those of the raw payload.
C8_EnvelopeKept ==
    \A i \in DOMAIN delivered :
        /\ DOMAIN delivered[i].arg = EnvelopeKeys
        /\ delivered[i].arg.schema = raw.schema
        /\ delivered[i].arg.table = raw.table
        /\ delivered[i].arg.commit_timestamp = raw.commit_timestamp
        /\ delivered[i].arg.event_type = raw.type

C8_Witness ==
    /\ Len(delivered) = 2
    /\ raw.type = "UPDATE"
    /\ raw.record = RowB
    /\ delivered[1].arg.new # {}
    /\ delivered[1].arg.commit_timestamp = "t1"
    /\ delivered[2].arg.table = "users"

\* C9: no callback gets an event whose new and old are both empty.
C9_NeverBothEmpty ==
    \A i \in DOMAIN delivered :
        ~(delivered[i].arg.new = {} /\ delivered[i].arg.old = {})

\* C10: constructing a handle sends no join and leaves its topic without a
\* join request; a join request is sent only by a step of on/async_on or
\* subscribe/async_subscribe on the handle of that topic.
C10_LazyJoin ==
    [][/\ Len(channels') > Len(channels) =>
             /\ sent' = sent
             /\ sent'[channels'[Len(channels')].topic] = 0
       /\ \A tp \in AllTopics :
             sent'[tp] > sent[tp] =>
                 \E h \in Handles :
                     /\ TopicOf(h) = tp
                     /\ \/ Len(channels'[h].listeners) > Len(channels[h].listeners)
                        \/ (task'.op # "idle" /\ task'.h = h)]_vars

C10_Witness ==
    /\ ret.op = "realtime" /\ ret.created
    /\ sent[TopicOf(ret.handle)] = 0
    /\ \E h \in Handles : sent[TopicOf(h)] > 0

----
(* Properties of the join lifecycle *)

\* the number of calls of a state callback on handle h with a tag
RECURSIVE Tagged(_, _, _)
Tagged(calls, h, tag) ==
    IF calls = <<>> THEN 0
    ELSE (IF Head(calls)[1] = h /\ Head(calls)[3] = tag THEN 1 ELSE 0)
         + Tagged(Tail(calls), h, tag)

\* the listeners of handle h whose callable is of a kind
OfKind(h, kind) ==
    { i \in DOMAIN channels[h].listeners : channels[h].listeners[i].fn.kind = kind }

\* a subscribe/async_subscribe call has been made on handle h
Subscribing(h) ==
    \/ task.op = "async_subscribe" /\ task.h = h
    \/ OfKind(h, "result") # {}

\* C11: the state callback is called with "SUBSCRIBED" only for a join the
\* transport acknowledged with ok: it has never been called more often than
\* ok outcomes were reported for the handle's topic.
C11_SubscribedOnlyOnAck ==
    \A h \in Handles :
        Tagged(state_calls, h, "SUBSCRIBED") <= replies[TopicOf(h)].ok

\* C12: when the transport reports a join failure for a handle on which
\* subscribe/async_subscribe was called, the state callback is called with
\* ("SUBSCRIPTION_ERROR", detail) in that step and no join is sent.
C12_ErrorReported ==
    [][\A h \in Handles :
          (replies'[TopicOf(h)].error > replies[TopicOf(h)].error /\ Subscribing(h))
          => /\ Tagged(state_calls', h, "SUBSCRIPTION_ERROR")
                    > Tagged(state_calls, h, "SUBSCRIPTION_ERROR")
             /\ \E c \in Callbacks, x \in Details :
                    state_calls'[Len(state_calls')] = <<h, c, "SUBSCRIPTION_ERROR", x>>
             /\ sent' = sent]_vars

\* C13: a subscribe call whose join times out has its state callback called
\* with "RETRYING_AFTER_TIMEOUT" once: never more often than subscribe calls
\* registered a timeout listener on the handle.
C13_TimeoutOnce ==
    \A h \in Handles :
        Tagged(state_calls, h, "RETRYING_AFTER_TIMEOUT")
            <= Cardinality(OfKind(h, "timeout"))

\* C14: unsubscribe on a handle raises nothing and removes the handle from
\* the client's registry.
C14_UnsubscribeRemoves ==
    ret.op = "unsubscribe" =>
        /\ ret.raised = ""
        /\ \A t \in Tables : realtime_clients[t] # ret.handle

----
(* Properties of the delivery of frames *)

\* the recorded calls of listener i of handle h
CallsOf(h, i) == { k \in DOMAIN feed.log : feed.log[k].h = h /\ feed.log[k].listener = i }

\* C15: when a listener's callback raises for a frame, every listener
\* registered after it on the channel that matches the frame's event is
\* still called for that frame.
C15_ListenerIsolation ==
    [][\A k \in DOMAIN feed'.log :
          (k > Len(feed.log) /\ feed'.log[k].raised)
          => LET e == feed'.log[k]
                 ls == channels[e.h].listeners
             IN  \A j \in DOMAIN ls :
                     (j > e.listener /\ Matches(ls[j], raw'.type) /\ ls[j].fn.kind = "cb")
                     => \E m \in DOMAIN feed'.log :
                            /\ feed'.log[m].frame = e.frame
                            /\ feed'.log[m].h = e.h
                            /\ feed'.log[m].listener = j]_vars

\* C16: the calls of one listener are in the order the frames were received:
\* of two recorded calls of a listener, the earlier one is for the earlier
\* frame and carries that frame's commit data.
C16_DeliveredInOrder ==
    \A h \in Handles : \A i \in DOMAIN channels[h].listeners :
        \A k1, k2 \in CallsOf(h, i) :
            k1 < k2 => feed.log[k1].frame < feed.log[k2].frame

C16_Witness ==
    \E h \in Handles : \E i \in DOMAIN channels[h].listeners :
        \E k1, k2 \in CallsOf(h, i) :
            /\ feed.log[k1].frame = 1
            /\ feed.log[k2].frame = 2
            /\ feed.log[k1].arg.event_type # feed.log[k2].arg.event_type

----
(* Properties of the client and its settings *)

\* C17: after close() the registry of realtime handles is empty and the
\* socket holds no channel.
C17_CloseDiscardsChannels ==
    ret.op = "close" =>
        /\ \A t \in Tables : realtime_clients[t] = 0
        /\ channels = <<>>

\* C18: after set_auth(token) has returned, a request through the query
\* builder, the storage client or the functions client carries
\* Authorization: Bearer <token>.
C18_SetAuthReachesAll ==
    ret.op = "set_auth" =>
        \A c \in HttpClients : Authorization(c) = Bearer(ret.token)

\* C19: the settings never hold a url that does not match ^https?://.+ or a
\* key that does not match the key pattern.
C19_SettingsWellFormed ==
    /\ validate_url(settings.url)
    /\ validate_key(settings.key)

----
(* Properties of concurrent registration *)

\* C20: however the realtime() calls of several threads interleave, the
\* socket holds one channel per topic and two calls that have returned for
\* the same (schema, table_name) have returned the same handle.
C20_OneHandlePerTopic ==
    /\ \A tp \in AllTopics :
           Cardinality({h \in Handles : channels[h].topic = tp}) <= 1
    /\ \A t1, t2 \in Threads :
           (/\ threads[t1].pc = "done" /\ threads[t2].pc = "done"
            /\ threads[t1].table_name = threads[t2].table_name
            /\ threads[t1].schema = threads[t2].schema)
           => threads[t1].result = threads[t2].result

----
(* Properties of the facade and the constructors *)

C27_SettingsUsed ==
    out.op = "construct" =>
        /\ out.settings # None
        /\ out.passed # None => out.settings = out.passed
        /\ out.passed = None => out.settings = "sb_settings"

----
(* Properties of FunctionsClient.invoke *)

Invoked_ == out.op \in {"invoke", "async_invoke"}
Answered_ == out.post # "raises" /\ out.options # None
RelayError == Answered_ /\ out.post[1] = "true"

\* C22: without a responseType entry in invoke_options, a response that is
\* no relay error has its body parsed as JSON and returned as data.
C22_JsonByDefault ==
    (Invoked_ /\ out.options = "{}" /\ Answered_ /\ ~RelayError /\ is_json(out.post[2]))
    => /\ out.raised = ""
       /\ out.result.data = parsed(out.post[2])
       /\ out.result.error = NoneValue

----
(* Properties of the coercion of records *)

\* C23: the records a callback gets are the coerced ones: for INSERT and
\* UPDATE new is the coerced current-row record, for UPDATE and DELETE old is
\* the coerced previous-row record.
C23_RecordsCoerced ==
    \A i \in DOMAIN delivered :
        /\ raw.type \in {"INSERT", "UPDATE"}
              => delivered[i].arg.new = convert_change_data(raw.columns, raw.record)
        /\ raw.type \in {"UPDATE", "DELETE"}
              => delivered[i].arg.old = convert_change_data(raw.columns, raw.old_record)

\* the cell is left as it came: no metadata for its column, or its value
\* does not convert
Uncoerced(columns, x) ==
    \/ ~\E c \in columns : c.name = x.col
    \/ \E c \in columns : c.name = x.col /\ c.type = "int8" /\ ~Numeric(x.v)

\* C24: a frame with a column that fails to coerce or has no metadata still
\* reaches every matching listener, and in the event that column of the
\* current row (in new) and of the previous row (in old) has its wire value.
C24_ColumnKeepsRaw ==
    /\ \A h \in Handles :
           (raw.type # "" /\ \E k \in DOMAIN channels[h].listeners :
                Matches(channels[h].listeners[k], raw.type))
           => delivered # <<>>
    /\ \A i \in DOMAIN delivered :
           /\ raw.type \in {"INSERT", "UPDATE"}
                 => \A x \in raw.record :
                        Uncoerced(raw.columns, x) => x \in delivered[i].arg.new
           /\ raw.type \in {"UPDATE", "DELETE"}
                 => \A x \in raw.old_record :
                        Uncoerced(raw.columns, x) => x \in delivered[i].arg.old

----
(* Properties of the fan-out *)

\* the listeners of handle h that a frame of the given type is for
MatchingListeners(h, type) ==
    { j \in DOMAIN channels[h].listeners :
          Matches(channels[h].listeners[j], type) /\ channels[h].listeners[j].fn.kind = "cb" }

\* C25: for each frame received, the callbacks called are those of all the
\* listeners whose filter is the frame's type or "*", each once, in the order
\* in which the listeners were registered.
C25_AllMatchingInOrder ==
    [][feed'.frames > feed.frames =>
          \A h \in Handles :
              LET first == Len(feed.log) + 1
                  called == { k \in first..Len(feed'.log) : feed'.log[k].h = h }
              IN  /\ { feed'.log[k].listener : k \in called } = MatchingListeners(h, raw'.type)
                  /\ \A k1, k2 \in called :
                         k1 < k2 => feed'.log[k1].listener < feed'.log[k2].listener]_vars

----
(* Properties of the two modes *)

\* the invocations of the state callback made on handle h, in order
RECURSIVE StateCallsOf(_, _)
StateCallsOf(calls, h) ==
    IF calls = <<>> THEN <<>>
    ELSE IF Head(calls)[1] = h
         THEN << <<Head(calls)[2], Head(calls)[3]>> >> \o StateCallsOf(Tail(calls), h)
         ELSE StateCallsOf(Tail(calls), h)

\* every cooperative call has returned and both handles have had the same calls
SameCalls ==
    /\ Blocking # 0 /\ Cooperative # 0
    /\ Idle
    /\ ~Behind

----
(* Properties of the authorization and the sessions *)

\* C28: after set_auth(token) has pushed the token into the postgrest and
\* the functions client, a request of either carries Authorization:
\* Bearer <token>, with or without a session at the time of the call and
\* with or without a key in the settings.
C28_TokenKept ==
    ret.op = "set_auth" =>
        \A c \in {"postgrest", "functions"} :
            /\ Authorization(c) = Bearer(ret.token)
            /\ http[c].session => http[c].session_auth = Bearer(ret.token)

\* C30: a client never has more than one session open, and has one exactly
\* when its _session is set; close raises nothing and leaves no client with
\* a session, whether or not it had one; a request leaves its client with
\* exactly one session.
C30_OneSession ==
    [][\A c \in HttpClients :
          /\ http'[c].open \in {0, 1}
          /\ http'[c].session <=> http'[c].open = 1
          /\ ret'.op = "close" /\ ret' # ret
                => (ret'.raised = "" /\ \A d \in HttpClients : http'[d].open = 0)
          /\ http'[c].open < http[c].open
                => (ret'.op = "close" /\ \A d \in HttpClients : http'[d].open = 0)
          /\ ret'.op = "close" /\ ~http[c].session /\ ~http'[c].session
                => http'[c].session_auth = http[c].session_auth
          /\ ~http[c].session /\ http'[c].session
                => http'[c].open = http[c].open + 1]_vars

C30_Witness ==
    /\ ret.op = "close"
    /\ \E c \in HttpClients :
           /\ http[c].session
           /\ http[c].open = 1
           /\ http[c].last # ""
    /\ \E c \in HttpClients : ~http[c].session /\ http[c].computed

====
